---- MODULE Spec2Model ----
(***************************************************************************)
(* Broadcast dispatch engine of aiogram-broadcast (BroadcastService), the  *)
(* Redis subscriber registry it reads, the registration middleware that    *)
(* writes the registry concurrently, the BroadcastScheduler and the        *)
(* BroadcastUIManager delivery runs.                                       *)
(*                                                                         *)
(* Every coroutine is a process; an action is the code between two await   *)
(* points (asyncio runs it without interruption).  asyncio.sleep calls are *)
(* folded into the action that issues them and recorded in sleeps.         *)
(***************************************************************************)
EXTENDS Integers, Sequences, FiniteSets, TLC

----------------------------------------------------------------------------
(* Bounds of the model *)

MaxIds == 2

MaxRetriesBound == 3

MaxCalls == 2

MaxEvents == 1

MaxTime == 2

MaxUiRetries == 1

RetryAfterN == 2

(* Program constants, scaled to model units *)

(* the number of /gm messages the bot receives *)
MaxMsgs == 3

(* the clock of the /gm throttle runs from 0 to MaxGmTime *)
MaxGmTime == 2

(* settings.gm_rate_window, scaled *)
GmWindow == 2

(* settings.gm_rate_limit, scaled *)
GmLimit == 1

BatchSize == 1

ProgressEvery == 1

RateLimit == 1

RetryDelay == 1

----------------------------------------------------------------------------
(* Value spaces *)

Ids == 1..MaxIds

Direct == {"p1", "p2"}

(* the callers are interchangeable: p1 names the one that calls first *)
FirstCaller == "p1"

MEMBER == "member"

KICKED == "kicked"

Names == {"n0", "n1"}

(* the display name the users carry in their updates: changed since they enrolled as "n0" *)
UserName == "n1"

NoRec == [state |-> "none", name |-> "none"]

Subscriber(st, nm) == [state |-> st, name |-> nm]

(* The sender's possible outcomes: the exception raised, with its text *)
OK == [cls |-> "ok", text |-> "ok"]

ForbiddenBlocked == [cls |-> "TelegramForbiddenError", text |-> "Forbidden: bot was blocked by the user"]

ForbiddenDeactivated == [cls |-> "TelegramForbiddenError", text |-> "Forbidden: user is deactivated"]

RetryAfter == [cls |-> "TelegramRetryAfter", text |-> "Flood control exceeded"]

ApiError == [cls |-> "TelegramAPIError", text |-> "Bad Gateway"]

OtherError == [cls |-> "Exception", text |-> "connection reset"]

Outcomes == {OK, ForbiddenBlocked, ForbiddenDeactivated, RetryAfter, ApiError, OtherError}

NoError == "none"

BroadcastResult == [total |-> 0, successful |-> 0, failed |-> 0,
                    blocked_users |-> << >>, errors |-> [u \in Ids |-> NoError]]

(* a success counted twice *)
add_success_Twice(r) == [r EXCEPT !.successful = @ + 2]

add_success(r) == [r EXCEPT !.successful = @ + 1]

(* a failure counted without its error detail *)
add_failure_NoDetail(r, user_id, error, is_blocked) ==
    [r EXCEPT !.failed = @ + 1,
              !.blocked_users = IF is_blocked THEN Append(@, user_id) ELSE @]

add_failure(r, user_id, error, is_blocked) ==
    [r EXCEPT !.failed = @ + 1,
              !.errors = [@ EXCEPT ![user_id] = error],
              !.blocked_users = IF is_blocked THEN Append(@, user_id) ELSE @]

(* "blocked" in error_msg.lower() or "kicked" in error_msg.lower() *)
TextsWithBlocked == {"Forbidden: bot was blocked by the user"}

TextsWithKicked == {"Forbidden: bot was kicked from the chat"}

IsBlocked(error_msg) == error_msg \in TextsWithBlocked \/ error_msg \in TextsWithKicked

(* Python tests the except clauses of _send_with_retry in order, by isinstance *)
Ancestors(cls) ==
    CASE cls = "TelegramForbiddenError" -> {"TelegramForbiddenError", "TelegramAPIError", "Exception"}
      [] cls = "TelegramRetryAfter" -> {"TelegramRetryAfter", "TelegramAPIError", "Exception"}
      [] cls = "TelegramAPIError" -> {"TelegramAPIError", "Exception"}
      [] OTHER -> {"Exception"}

(* a retry loop without the final except Exception clause *)
ExceptClauses_NoCatchAll == <<"TelegramForbiddenError", "TelegramRetryAfter", "TelegramAPIError">>

ExceptClauses == <<"TelegramForbiddenError", "TelegramRetryAfter", "TelegramAPIError", "Exception">>

Handler(cls) ==
    LET hits == {k \in 1..Len(ExceptClauses) : ExceptClauses[k] \in Ancestors(cls)}
    IN  IF hits = {} THEN "unhandled"
        ELSE ExceptClauses[CHOOSE k \in hits : \A j \in hits : k <= j]

----------------------------------------------------------------------------
VARIABLES
    in_progress,   \* BroadcastService._in_progress
    max_retries,   \* BroadcastService._max_retries
    keys,          \* fields of the Redis hash, in scan order
    recs,          \* Redis hash: user id -> stored Subscriber
    pc,            \* position of every coroutine
    only_active,   \* argument of the current _broadcast call
    cursor,        \* HSCAN cursor of the snapshot in progress
    ids,           \* subscriber_ids of the run
    result,        \* BroadcastResult of the run
    idx,           \* i of enumerate(subscriber_ids, 1)
    attempt,       \* attempt of range(max_retries)
    rec,           \* subscriber object held by update_subscriber_state
    ret,           \* how the last invocation ended
    ncalls,        \* number of broadcast calls made so far
    outs,          \* history: sender outcomes for the current recipient
    sleeps,        \* history: asyncio.sleep calls for the current recipient
    base,          \* history: the Result when the current recipient started
    last,          \* history: summary of the recipient processed last
    touched,       \* history: the invocation has called the registry or the sender
    startIds,      \* history: recipients matching the filter when the snapshot began
    mwpc,          \* position of the registration middleware coroutine
    mwuser,        \* the user of the update the middleware is handling
    mwrec,         \* subscriber object held by the middleware
    mwseen,        \* history: the update being handled and the state its read returned
    nevents,       \* number of updates handled so far
    now,           \* the clock of the timer backend
    jobs,          \* job store of the AsyncIOScheduler: job id -> job
    pending_tasks, \* BroadcastScheduler._pending_tasks (the task ids)
    uiIds,         \* subscriber_ids kept in the FSM data of the broadcast menu
    runAt,         \* history: the run_date a job was registered with
    configured,    \* BroadcastScheduler.is_configured: an APScheduler was passed
    cb,            \* history: the callbacks a task's execution has invoked
    opres          \* history: what the last cancel or refused scheduler call reported

svcVars == <<in_progress, max_retries>>

regVars == <<keys, recs>>

runVars == <<pc, only_active, cursor, ids, result, idx, attempt, rec, ret, ncalls>>

histVars == <<outs, sleeps, base, last, touched, startIds>>

mwVars == <<mwpc, mwuser, mwrec, mwseen, nevents>>

schedVars == <<now, jobs, pending_tasks, uiIds, runAt, configured, cb, opres>>

VARIABLES
    gm_history,    \* rows of the table gm_history
    gmpc,          \* position of the task that handles each /gm message
    gmgroup,       \* the chat each /gm message was sent in
    gmpass,        \* history: when the message passed ThrottlingMiddleware, -1 if it has not
    gmclock        \* NOW() of the database

gmVars == <<gm_history, gmpc, gmgroup, gmpass, gmclock>>

libVars == <<svcVars, regVars, runVars, histVars, mwVars, schedVars>>

vars == <<libVars, gmVars>>

(* the /gm messages the bot receives, each handled by a task of its own *)
Msgs == 1..MaxMsgs

(* the group chats *)
Groups == {"g1", "g2"}

Tasks == {"t1", "t2"}

Ui == {"ui"}

Runners == Direct \cup Tasks \cup Ui

NoJob == [run_date |-> 0, func |-> "none", subscriber_ids |-> << >>]

NoRet == [kind |-> "none", at |-> "none"]

NoCb == [called |-> << >>, task |-> "none", arg |-> "none", raised |-> FALSE, escaped |-> FALSE]

NoSeen == [kind |-> "none", state |-> "none"]

NoOp == [op |-> "none", id |-> "none", out |-> "none", at |-> "none"]

NoLast == [id |-> 0, outs |-> << >>, sleeps |-> << >>, successful |-> 0, failed |-> 0,
           error |-> NoError, blocked |-> FALSE, state |-> "none", progress |-> "none",
           args |-> [i |-> 0, total |-> 0, successful |-> 0, failed |-> 0]]

Range(s) == {s[k] : k \in 1..Len(s)}

RECURSIVE SelectIds(_, _)
(* the ids of the entries of a scanned batch that pass the state filter *)
SelectIds(batch, state) ==
    IF batch = << >> THEN << >>
    ELSE LET u == Head(batch)
         IN  (IF state = "none" \/ recs[u].state = state THEN <<u>> ELSE << >>)
             \o SelectIds(Tail(batch), state)

Matching(state) == {u \in Range(keys) : state = "none" \/ recs[u].state = state}

StateFilter(only) == IF only THEN MEMBER ELSE "none"

(* Registries the program starts from: every user but the last is an active subscriber,
   the last one is active, has blocked the bot, or has not written to the bot yet *)
InitRegistries ==
    {[u \in Ids |-> IF u < MaxIds THEN Subscriber(MEMBER, "n0") ELSE x] :
        x \in {Subscriber(MEMBER, "n0"), Subscriber(KICKED, "n0"), NoRec}}

RECURSIVE Present(_, _)
Present(r, u) == IF u > MaxIds \/ r[u] = NoRec THEN << >> ELSE <<u>> \o Present(r, u + 1)

InitBase ==
    /\ in_progress = FALSE
    /\ max_retries \in 1..MaxRetriesBound
    /\ recs \in InitRegistries
    /\ keys = Present(recs, 1)
    /\ pc = [p \in Runners |-> "idle"]
    /\ only_active = [p \in Runners |-> TRUE]
    /\ cursor = [p \in Runners |-> 0]
    /\ ids = [p \in Runners |-> << >>]
    /\ result = [p \in Runners |-> BroadcastResult]
    /\ idx = [p \in Runners |-> 0]
    /\ attempt = [p \in Runners |-> 0]
    /\ rec = [p \in Runners |-> NoRec]
    /\ ret = [p \in Runners |-> NoRet]
    /\ ncalls = 0
    /\ outs = [p \in Runners |-> << >>]
    /\ sleeps = [p \in Runners |-> << >>]
    /\ base = [p \in Runners |-> BroadcastResult]
    /\ last = [p \in Runners |-> NoLast]
    /\ touched = [p \in Runners |-> FALSE]
    /\ startIds = [p \in Runners |-> {}]
    /\ mwpc = "idle"
    /\ mwuser = 0
    /\ mwrec = NoRec
    /\ mwseen = NoSeen
    /\ nevents = 0
    /\ now = 0
    /\ jobs = [t \in Tasks |-> NoJob]
    /\ pending_tasks = {}
    /\ uiIds = << >>
    /\ runAt = [t \in Tasks |-> 0]
    /\ cb = [t \in Tasks |-> NoCb]
    /\ opres = NoOp
    /\ gm_history = {}
    /\ gmpc = [m \in Msgs |-> "new"]
    /\ gmgroup = [m \in Msgs |-> "none"]
    /\ gmpass = [m \in Msgs |-> -1]
    /\ gmclock = 0

(* the application passes an AsyncIOScheduler to its BroadcastScheduler *)
Init == InitBase /\ configured = TRUE

----------------------------------------------------------------------------
(* BroadcastService._broadcast and _send_with_retry *)

(* a guard that lets every call through *)
GuardRejects_Never == FALSE

(* if self._in_progress: raise BroadcastInProgressError *)
GuardRejects == in_progress

(* the flag reset at the end of the try block instead of in a finally clause *)
FlagAfter_NoFinally(how) == how # "return"

(* finally: self._in_progress = False, however the try block ended *)
FlagAfter(how) == FALSE

(* an off-by-one in the test for the last attempt *)
ShouldRetry_OffByOne(a) == a < max_retries

(* if attempt < self._max_retries - 1: sleep and continue *)
ShouldRetry(a) == a < max_retries - 1

(* an unexpected error retried like a transient one *)
UnexpectedRetries_LikeTransient(a) == a < max_retries - 1

(* except Exception: add_failure and return False, whatever the attempt *)
UnexpectedRetries(a) == FALSE

(* a guard test placed inside the try block, so that the finally clause clears the flag *)
FlagAfterRejection_InsideTry == FALSE

(* the raise of BroadcastInProgressError precedes the try block: the flag is not touched *)
FlagAfterRejection == in_progress

(* an executor that puts a task turned away by the guard back in line *)
AfterReturn_Requeues(p, kind) ==
    IF p \in Tasks
    THEN (IF kind = "result" THEN "on_complete"
          ELSE IF kind = "BroadcastInProgressError" THEN "fired" ELSE "on_error")
    ELSE "idle"

(* where the coroutine that awaited the broadcast call resumes *)
AfterReturn(p, kind) ==
    IF p \in Tasks THEN (IF kind = "result" THEN "on_complete" ELSE "on_error") ELSE "idle"

Min(a, b) == IF a < b THEN a ELSE b

Count(seq, x) == Cardinality({k \in 1..Len(seq) : seq[k] = x})

Sleep(kind, secs) == [kind |-> kind, secs |-> secs]

stepVars == <<last, pc, idx, attempt, outs, sleeps, base, result, in_progress, ret>>

(* the exception leaves _broadcast through the finally clause *)
Raise(p, kind, where) ==
    /\ in_progress' = FlagAfter("raise")
    /\ ret' = [ret EXCEPT ![p] = [kind |-> kind, at |-> where]]
    /\ pc' = [pc EXCEPT ![p] = AfterReturn(p, kind)]
    /\ UNCHANGED <<last, idx, attempt, outs, sleeps, base, result>>

(* asyncio.sleep(self._rate_limit) skipped *)
RatePause_None(s, success) == s

(* if success and self._rate_limit > 0: await asyncio.sleep(self._rate_limit) *)
RatePause(s, success) ==
    IF success /\ RateLimit > 0 THEN Append(s, Sleep("rate_limit", RateLimit)) ELSE s

(* the progress callback awaited without try/except *)
ProgressGuarded_NoTry == FALSE

(* try: await progress_callback(i, result.total, result) except Exception: log *)
ProgressGuarded == TRUE

(* a loop that never reports progress *)
ProgressDue_Never(p, i) == FALSE

(* if progress_callback and i % 10 == 0 *)
ProgressDue(p, i) == p \in Direct /\ i % ProgressEvery = 0

NoArgs == [i |-> 0, total |-> 0, successful |-> 0, failed |-> 0]

(* progress_callback(i, result.total, result): what the callback is handed *)
ProgressArgs(i, r) ==
    [i |-> i, total |-> r.total, successful |-> r.successful, failed |-> r.failed]

(* what the awaited callback does; the direct
   callers pass a callback, the executors of scheduled tasks pass none *)
ProgressOutcomes(p, i) ==
    IF ProgressDue(p, i) THEN {"returned", "raised"} ELSE {"none"}

(* the coroutine stays with the current recipient *)
Stay(p, r, o2, s2, newpc, att) ==
    /\ pc' = [pc EXCEPT ![p] = newpc]
    /\ attempt' = [attempt EXCEPT ![p] = att]
    /\ outs' = [outs EXCEPT ![p] = o2]
    /\ sleeps' = [sleeps EXCEPT ![p] = s2]
    /\ result' = [result EXCEPT ![p] = r]
    /\ last' = [last EXCEPT ![p] = NoLast]
    /\ UNCHANGED <<idx, base, in_progress, ret>>

(* _send_with_retry returned: the progress callback, the rate-limit pause, then the
   next recipient of the for loop, or return result *)
Advance(p, r, o2, s2, st, success) ==
    LET u == ids[p][idx[p]]
        s3 == RatePause(s2, success)
    IN  \E called \in ProgressOutcomes(p, idx[p]) :
            IF called = "raised" /\ ~ProgressGuarded
            THEN Raise(p, "ProgressCallbackError", "progress")
            ELSE /\ last' = [last EXCEPT ![p] =
                               [id |-> u, outs |-> o2, sleeps |-> s3,
                                successful |-> r.successful - base[p].successful,
                                failed |-> r.failed - base[p].failed,
                                error |-> r.errors[u],
                                blocked |-> Count(r.blocked_users, u) > 0,
                                state |-> st,
                                progress |-> called,
                                args |-> IF called = "none" THEN NoArgs
                                         ELSE ProgressArgs(idx[p], r)]]
                 /\ result' = [result EXCEPT ![p] = r]
                 /\ idx' = [idx EXCEPT ![p] = @ + 1]
                 /\ attempt' = [attempt EXCEPT ![p] = 0]
                 /\ outs' = [outs EXCEPT ![p] = << >>]
                 /\ sleeps' = [sleeps EXCEPT ![p] = << >>]
                 /\ base' = [base EXCEPT ![p] = r]
                 /\ IF idx[p] < Len(ids[p])
                    THEN /\ pc' = [pc EXCEPT ![p] = "send"]
                         /\ UNCHANGED <<in_progress, ret>>
                    ELSE /\ pc' = [pc EXCEPT ![p] = AfterReturn(p, "result")]
                         /\ in_progress' = FlagAfter("return")
                         /\ ret' = [ret EXCEPT ![p] = [kind |-> "result", at |-> "return"]]

(* a retry loop with one iteration more than max_retries *)
MoreAttempts_OneMore(a) == a < max_retries

(* for attempt in range(self._max_retries): another iteration follows attempt a *)
MoreAttempts(a) == a + 1 < max_retries

(* continue: the next attempt of range(max_retries), or the end of the for loop *)
Continue(p, o2, s2) ==
    IF MoreAttempts(attempt[p])
    THEN Stay(p, result[p], o2, s2, "send", attempt[p] + 1)
    ELSE Advance(p, result[p], o2, s2, recs[ids[p][idx[p]]].state, FALSE)

(* the locals of p for a new run; the results of invocations that ended earlier are dropped *)
Fresh(f, p, v0, v) ==
    [q \in Runners |-> IF q = p THEN v ELSE IF pc[q] \in {"idle", "done"} THEN v0 ELSE f[q]]

(* entry of _broadcast, up to the first await *)
BroadcastEnter(p, only) ==
    /\ touched' = [touched EXCEPT ![p] = FALSE]
    /\ IF GuardRejects
       THEN /\ ret' = [ret EXCEPT ![p] = [kind |-> "BroadcastInProgressError", at |-> "guard"]]
            /\ pc' = [pc EXCEPT ![p] = AfterReturn(p, "BroadcastInProgressError")]
            /\ in_progress' = FlagAfterRejection
            /\ UNCHANGED <<only_active, cursor, ids, result, idx, attempt,
                           outs, sleeps, base, last, startIds>>
       ELSE /\ in_progress' = TRUE
            /\ result' = Fresh(result, p, BroadcastResult, BroadcastResult)
            /\ only_active' = Fresh(only_active, p, TRUE, only)
            /\ cursor' = [cursor EXCEPT ![p] = 0]
            /\ ids' = Fresh(ids, p, << >>, << >>)
            /\ idx' = Fresh(idx, p, 0, 0)
            /\ attempt' = [attempt EXCEPT ![p] = 0]
            /\ outs' = [outs EXCEPT ![p] = << >>]
            /\ sleeps' = [sleeps EXCEPT ![p] = << >>]
            /\ base' = Fresh(base, p, BroadcastResult, BroadcastResult)
            /\ last' = Fresh(last, p, NoLast, NoLast)
            /\ ret' = Fresh(ret, p, NoRet, NoRet)
            /\ startIds' = Fresh(startIds, p, {}, {})
            /\ pc' = [pc EXCEPT ![p] = "snapshot"]

(* a caller awaits one of the broadcast_* wrappers *)
Call(p) ==
    /\ p \in Direct
    /\ pc[p] = "idle"
    /\ ncalls < MaxCalls
    /\ ncalls = 0 => p = FirstCaller
    /\ ncalls' = ncalls + 1
    /\ \E only \in BOOLEAN : BroadcastEnter(p, only)
    /\ UNCHANGED <<gmVars, max_retries, regVars, rec, mwVars, schedVars>>

(* one Redis call of get_all_subscriber_ids: HKEYS, or one HSCAN of iter_subscribers *)
Snapshot(p) ==
    /\ pc[p] = "snapshot"
    /\ touched' = [touched EXCEPT ![p] = TRUE]
    /\ LET all == ~only_active[p]
           upto == Min(cursor[p] + BatchSize, Len(keys))
           got == IF all THEN keys
                  ELSE ids[p] \o SelectIds(SubSeq(keys, cursor[p] + 1, upto), MEMBER)
           done == all \/ upto >= Len(keys)
           r == [result[p] EXCEPT !.total = Len(got)]
       IN  /\ ids' = [ids EXCEPT ![p] = got]
           /\ IF ~done
              THEN /\ cursor' = [cursor EXCEPT ![p] = upto]
                   /\ UNCHANGED stepVars
              ELSE /\ cursor' = [cursor EXCEPT ![p] = 0]
                   /\ IF got = << >>
                      THEN /\ pc' = [pc EXCEPT ![p] = AfterReturn(p, "result")]
                           /\ in_progress' = FlagAfter("return")
                           /\ ret' = [ret EXCEPT ![p] = [kind |-> "result", at |-> "return"]]
                           /\ result' = [result EXCEPT ![p] = r]
                           /\ UNCHANGED <<last, idx, attempt, outs, sleeps, base>>
                      ELSE /\ pc' = [pc EXCEPT ![p] = "send"]
                           /\ idx' = [idx EXCEPT ![p] = 1]
                           /\ result' = [result EXCEPT ![p] = r]
                           /\ base' = [base EXCEPT ![p] = r]
                           /\ UNCHANGED <<last, attempt, outs, sleeps, in_progress, ret>>
    /\ startIds' = IF cursor[p] = 0 /\ ids[p] = << >> /\ ~touched[p]
                   THEN [startIds EXCEPT ![p] = Matching(StateFilter(only_active[p]))]
                   ELSE startIds
    /\ UNCHANGED <<gmVars, max_retries, regVars, only_active, rec, ncalls, mwVars, schedVars>>

(* the Redis call of the snapshot raises *)
SnapshotFails(p) ==
    /\ pc[p] = "snapshot"
    /\ touched' = [touched EXCEPT ![p] = TRUE]
    /\ Raise(p, "StorageError", "snapshot")
    /\ UNCHANGED <<gmVars, max_retries, regVars, only_active, cursor, ids, rec, ncalls,
                   startIds, mwVars, schedVars>>

(* one iteration of the retry loop: await sender(user_id) and the handler of its outcome *)
Send(p, o) ==
    /\ pc[p] = "send"
    /\ touched' = [touched EXCEPT ![p] = TRUE]
    /\ LET u == ids[p][idx[p]]
           h == IF o = OK THEN "ok" ELSE Handler(o.cls)
           o2 == Append(outs[p], o)
           s == sleeps[p]
       IN  CASE h = "ok" ->
                  Advance(p, add_success(result[p]), o2, s, recs[u].state, TRUE)
             [] h = "TelegramForbiddenError" ->
                  LET is_blocked == IsBlocked(o.text)
                      r == add_failure(result[p], u, o.text, is_blocked)
                  IN  IF is_blocked
                      THEN Stay(p, r, o2, s, "retire_get", attempt[p])
                      ELSE Advance(p, r, o2, s, recs[u].state, FALSE)
             [] h = "TelegramRetryAfter" ->
                  Continue(p, o2, Append(s, Sleep("retry_after", RetryAfterN)))
             [] h = "TelegramAPIError" ->
                  IF ShouldRetry(attempt[p])
                  THEN Continue(p, o2, Append(s, Sleep("backoff", RetryDelay * (attempt[p] + 1))))
                  ELSE Advance(p, add_failure(result[p], u, o.text, FALSE), o2, s, recs[u].state, FALSE)
             [] h = "Exception" ->
                  IF UnexpectedRetries(attempt[p])
                  THEN Continue(p, o2, Append(s, Sleep("backoff", RetryDelay * (attempt[p] + 1))))
                  ELSE Advance(p, add_failure(result[p], u, o.text, FALSE), o2, s,
                               recs[u].state, FALSE)
             [] OTHER ->
                  Raise(p, o.cls, "send")
    /\ UNCHANGED <<gmVars, max_retries, regVars, only_active, cursor, ids, rec, ncalls,
                   startIds, mwVars, schedVars>>

(* a state update that toggles instead of assigning *)
WithState_Toggle(sub, st) == [sub EXCEPT !.state = IF @ = st THEN MEMBER ELSE st]

(* subscriber.state = state *)
WithState(sub, st) == [sub EXCEPT !.state = st]

(* update_subscriber_state: subscriber = await self.get_subscriber(user_id) *)
RetireGet(p) ==
    /\ pc[p] = "retire_get"
    /\ touched' = [touched EXCEPT ![p] = TRUE]
    /\ LET u == ids[p][idx[p]]
       IN  IF recs[u] = NoRec
           THEN /\ Advance(p, result[p], outs[p], sleeps[p], recs[u].state, FALSE)
                /\ UNCHANGED rec
           ELSE /\ rec' = [rec EXCEPT ![p] = WithState(recs[u], KICKED)]
                /\ Stay(p, result[p], outs[p], sleeps[p], "retire_put", attempt[p])
    /\ UNCHANGED <<gmVars, max_retries, regVars, only_active, cursor, ids, ncalls,
                   startIds, mwVars, schedVars>>

(* update_subscriber_state: await self.update_subscriber(subscriber), an HSET *)
RetirePut(p) ==
    /\ pc[p] = "retire_put"
    /\ touched' = [touched EXCEPT ![p] = TRUE]
    /\ LET u == ids[p][idx[p]]
       IN  /\ recs' = [recs EXCEPT ![u] = rec[p]]
           /\ keys' = IF u \in Range(keys) THEN keys ELSE Append(keys, u)
           /\ rec' = [rec EXCEPT ![p] = NoRec]
           /\ Advance(p, result[p], outs[p], sleeps[p], rec[p].state, FALSE)
    /\ UNCHANGED <<gmVars, max_retries, only_active, cursor, ids, ncalls,
                   startIds, mwVars, schedVars>>

(* a Redis call of update_subscriber_state raises *)
RetireFails(p) ==
    /\ pc[p] \in {"retire_get", "retire_put"}
    /\ touched' = [touched EXCEPT ![p] = TRUE]
    /\ Raise(p, "StorageError", "retire")
    /\ UNCHANGED <<gmVars, max_retries, regVars, only_active, cursor, ids, rec, ncalls,
                   startIds, mwVars, schedVars>>

----------------------------------------------------------------------------
(* BroadcastMiddleware: registration and refresh of the subscriber of an update *)

engineVars == <<svcVars, runVars, histVars>>

(* existing = await self._storage.get_subscriber(user.id), and what follows up to the write *)
MwGet(u, kind, nm) ==
    /\ mwpc = "idle"
    /\ nevents < MaxEvents
    /\ LET existing == recs[u]
           new_state == IF kind = "left" THEN KICKED ELSE MEMBER
           refreshed == IF kind = "message" /\ existing # NoRec
                        THEN [name |-> nm,
                              state |-> IF existing.state = KICKED THEN MEMBER ELSE existing.state]
                        ELSE Subscriber(new_state, nm)
           changed == kind # "message" \/ refreshed # existing
       IN  IF changed
           THEN /\ mwpc' = "put"
                /\ mwuser' = u
                /\ mwrec' = refreshed
                /\ mwseen' = [kind |-> kind, state |-> existing.state]
                /\ UNCHANGED nevents
           ELSE /\ nevents' = nevents + 1
                /\ UNCHANGED <<mwpc, mwuser, mwrec, mwseen>>
    /\ UNCHANGED <<gmVars, engineVars, regVars, schedVars>>

(* await self._storage.update_subscriber(existing) / add_subscriber(subscriber): an HSET *)
MwPut ==
    /\ mwpc = "put"
    /\ recs' = [recs EXCEPT ![mwuser] = mwrec]
    /\ keys' = IF mwuser \in Range(keys) THEN keys ELSE Append(keys, mwuser)
    /\ mwpc' = "idle"
    /\ mwuser' = 0
    /\ mwrec' = NoRec
    /\ mwseen' = NoSeen
    /\ nevents' = nevents + 1
    /\ UNCHANGED <<gmVars, engineVars, schedVars>>

UpdateKinds == {"message", "joined", "left"}

(* the field of the Redis hash: str(subscriber.id) *)
UserKey(u) == ToString(u)

(* the exception add_subscriber raises for a record: it makes no check before the HSET *)
AddRaises(u) == "none"

(* RedisBroadcastStorage.add_subscriber(subscriber), called on the storage directly *)
AddSubscriber(u, st, nm) ==
    /\ opres' = [op |-> "add_subscriber", id |-> UserKey(u), out |-> AddRaises(u),
                 at |-> "none"]
    /\ IF AddRaises(u) = "none"
       THEN /\ recs' = [recs EXCEPT ![u] = Subscriber(st, nm)]
            /\ keys' = IF u \in Range(keys) THEN keys ELSE Append(keys, u)
       ELSE UNCHANGED regVars
    /\ UNCHANGED <<gmVars, engineVars, mwVars, now, jobs, pending_tasks, uiIds, runAt, configured, cb>>

----------------------------------------------------------------------------
(* BroadcastScheduler, the timer backend and the delivery runs of BroadcastUIManager *)

(* what the send_message_copy of the menu's runs distinguishes *)
UiOutcomes == {OK, RetryAfter, ForbiddenBlocked}

(* schedule_text: add_job(self._execute_text_broadcast, "date", run_date, id=task_id),
   then self._pending_tasks[task_id] = task; t is the fresh uuid *)
ScheduleText(t, d) ==
    /\ configured
    /\ jobs[t] = NoJob /\ runAt[t] = 0 /\ pc[t] = "idle"
    /\ d > now
    /\ jobs' = [jobs EXCEPT ![t] = [run_date |-> d, func |-> "_execute_text_broadcast",
                                    subscriber_ids |-> << >>]]
    /\ pending_tasks' = pending_tasks \cup {t}
    /\ runAt' = [runAt EXCEPT ![t] = d]
    /\ UNCHANGED <<gmVars, now, uiIds, configured, cb, opres, engineVars, regVars, mwVars>>

(* the admin's broadcast command: open_menu(await get_all_subscriber_ids()) *)
UiOpenMenu ==
    /\ uiIds # keys
    /\ uiIds' = keys
    /\ UNCHANGED <<gmVars, now, jobs, pending_tasks, runAt, configured, cb, opres,
                   engineVars, regVars, mwVars>>

(* execute_broadcast_now: asyncio.create_task(self._run_broadcast(subscriber_ids, ...)) *)
UiExecuteNow(p) ==
    /\ p \in Ui
    /\ pc[p] = "idle"
    /\ uiIds # << >>
    /\ pc' = [pc EXCEPT ![p] = "ui_notify"]
    /\ ids' = [ids EXCEPT ![p] = uiIds]
    /\ UNCHANGED <<gmVars, svcVars, regVars, only_active, cursor, result, idx, attempt, rec, ret,
                   ncalls, histVars, mwVars, schedVars>>

(* schedule_broadcast: scheduler.add_job(func=self._run_broadcast, DateTrigger(dt), id) *)
UiSchedule(t, d) ==
    /\ configured
    /\ jobs[t] = NoJob /\ runAt[t] = 0 /\ pc[t] = "idle"
    /\ uiIds # << >>
    /\ d > now
    /\ jobs' = [jobs EXCEPT ![t] = [run_date |-> d, func |-> "_run_broadcast",
                                    subscriber_ids |-> uiIds]]
    /\ runAt' = [runAt EXCEPT ![t] = d]
    /\ UNCHANGED <<gmVars, now, pending_tasks, uiIds, configured, cb, opres,
                   engineVars, regVars, mwVars>>

Due(t, time) == jobs[t] # NoJob /\ jobs[t].run_date <= time

(* the timer backend wakes up: every due job is submitted as a task of the event loop
   and, having a date trigger, leaves the job store *)
Tick ==
    /\ now < MaxTime
    /\ now' = now + 1
    /\ pc' = [p \in Runners |->
                IF p \in Tasks /\ Due(p, now + 1)
                THEN (IF jobs[p].func = "_run_broadcast" THEN "ui_notify" ELSE "fired")
                ELSE pc[p]]
    /\ ids' = [p \in Runners |->
                 IF p \in Tasks /\ Due(p, now + 1) THEN jobs[p].subscriber_ids ELSE ids[p]]
    /\ jobs' = [t \in Tasks |-> IF Due(t, now + 1) THEN NoJob ELSE jobs[t]]
    /\ UNCHANGED <<gmVars, svcVars, regVars, only_active, cursor, result, idx, attempt, rec, ret,
                   ncalls, histVars, mwVars, pending_tasks, uiIds, runAt,
                   configured, cb, opres>>

(* _execute_text_broadcast up to its first await: self._service.broadcast_text(...) *)
TaskStart(t) ==
    /\ t \in Tasks
    /\ pc[t] = "fired"
    /\ BroadcastEnter(t, TRUE)
    /\ UNCHANGED <<gmVars, max_retries, regVars, rec, ncalls, mwVars, schedVars>>

(* the result has been handed over: the locals of the run are not read again *)
Dropped(p) ==
    /\ ids' = [ids EXCEPT ![p] = << >>]
    /\ idx' = [idx EXCEPT ![p] = 0]
    /\ result' = [result EXCEPT ![p] = BroadcastResult]
    /\ base' = [base EXCEPT ![p] = BroadcastResult]
    /\ last' = [last EXCEPT ![p] = NoLast]
    /\ startIds' = [startIds EXCEPT ![p] = {}]
    /\ attempt' = [attempt EXCEPT ![p] = 0]

(* a completion callback called without the try/except of _handle_completion *)
CallbackGuarded_NoTry == FALSE

(* _handle_completion and _handle_error await the callback inside try/except Exception *)
CallbackGuarded == TRUE

(* the pending entry removed after the try block instead of in a finally clause *)
PopsAfter_NoFinally(how) == how = "result"

(* finally: self._pending_tasks.pop(task.id, None), however the dispatch call ended *)
PopsAfter(how) == TRUE

(* get_task: self._pending_tasks.get(task_id) *)
get_task(t) == IF t \in pending_tasks THEN t ELSE "None"

(* get_pending_tasks: list(self._pending_tasks.values()) *)
get_pending_tasks == pending_tasks

(* the dispatch call returned: await self._handle_completion(task.id, result); an
   exception that leaves it is caught by the except Exception of the executor *)
OnComplete(t, raises) ==
    /\ pc[t] = "on_complete"
    /\ pc' = [pc EXCEPT ![t] = "finally"]
    /\ cb' = [cb EXCEPT ![t] =
                IF raises /\ ~CallbackGuarded
                THEN [called |-> <<"on_complete", "on_error">>, task |-> t, arg |-> "result",
                      raised |-> TRUE, escaped |-> FALSE]
                ELSE [called |-> <<"on_complete">>, task |-> t, arg |-> "result",
                      raised |-> raises, escaped |-> FALSE]]
    /\ Dropped(t)
    /\ UNCHANGED <<gmVars, svcVars, regVars, only_active, cursor, rec, ret, ncalls, outs, sleeps,
                   touched, mwVars, now, jobs, pending_tasks, uiIds, runAt,
                   configured, opres>>

(* the dispatch call raised: except Exception as e: await self._handle_error(task.id, e) *)
OnError(t, raises) ==
    /\ pc[t] = "on_error"
    /\ pc' = [pc EXCEPT ![t] = "finally"]
    /\ cb' = [cb EXCEPT ![t] =
                [called |-> <<"on_error">>, task |-> t, arg |-> ret[t].kind,
                 raised |-> raises, escaped |-> raises /\ ~CallbackGuarded]]
    /\ Dropped(t)
    /\ UNCHANGED <<gmVars, svcVars, regVars, only_active, cursor, rec, ret, ncalls, outs, sleeps,
                   touched, mwVars, now, jobs, pending_tasks, uiIds, runAt,
                   configured, opres>>

(* finally: self._pending_tasks.pop(task.id, None); the executor returns to APScheduler *)
Finally(t) ==
    /\ pc[t] = "finally"
    /\ pc' = [pc EXCEPT ![t] = "done"]
    /\ pending_tasks' = IF PopsAfter(ret[t].kind) THEN pending_tasks \ {t} ELSE pending_tasks
    /\ cb' = [cb EXCEPT ![t] = NoCb]
    /\ UNCHANGED <<gmVars, svcVars, regVars, only_active, cursor, ids, result, idx, attempt, rec,
                   ret, ncalls, histVars, mwVars, now, jobs, uiIds, runAt, configured, opres>>

(* the operations that begin with self._ensure_scheduler() *)
EnsuringOps == {"schedule_text", "schedule_photo", "schedule_copy", "cancel"}

(* the public operations of BroadcastScheduler *)
SchedulerOps == EnsuringOps \cup {"get_pending_tasks", "get_task"}

(* the exception an operation raises before it does anything else *)
Raises(op) ==
    IF op \in EnsuringOps /\ ~configured THEN "SchedulerNotConfiguredError" ELSE "none"

(* _ensure_scheduler raises SchedulerNotConfiguredError before anything else is done *)
NotConfigured(op) ==
    /\ Raises(op) # "none"
    /\ opres' = [op |-> op, id |-> "none", out |-> Raises(op), at |-> "none"]
    /\ UNCHANGED <<gmVars, engineVars, regVars, mwVars, now, jobs, pending_tasks, uiIds, runAt,
                   configured, cb>>

(* a cancel that pops the pending entry whether or not remove_job raised *)
PopsOnCancel_Always(found) == TRUE

(* self._pending_tasks.pop(task_id, None) follows remove_job inside the try block: it is
   skipped when remove_job raised JobLookupError *)
PopsOnCancel(found) == found

(* what cancel reports, and whether the task's execution had begun, had ended or
   neither when it was called *)
CancelReport(t, found) ==
    [op |-> "cancel", id |-> t, out |-> IF found THEN "True" ELSE "False",
     at |-> IF pc[t] \in {"idle", "done"} THEN pc[t] ELSE "executing"]

(* a cancel that drops the pending entry and leaves the job with the timer backend *)
Cancel_PopOnly(t) ==
    /\ configured
    /\ pending_tasks' = pending_tasks \ {t}
    /\ opres' = CancelReport(t, jobs[t] # NoJob)
    /\ UNCHANGED <<gmVars, jobs, engineVars, regVars, mwVars, now, uiIds, runAt, configured, cb>>

(* cancel: remove_job raises JobLookupError when the job store has no such job *)
Cancel(t) ==
    /\ configured
    /\ LET found == jobs[t] # NoJob
       IN  /\ jobs' = [jobs EXCEPT ![t] = NoJob]
           /\ pending_tasks' = IF PopsOnCancel(found) THEN pending_tasks \ {t}
                               ELSE pending_tasks
           /\ opres' = CancelReport(t, found)
    /\ UNCHANGED <<gmVars, engineVars, regVars, mwVars, now, uiIds, runAt, configured, cb>>

(* delete_scheduled_broadcast: self.scheduler.scheduler.remove_job(job_id), for a job
   picked from the menu's list of the jobs of the job store *)
UiDelete(t) ==
    /\ configured
    /\ jobs[t] # NoJob
    /\ jobs' = [jobs EXCEPT ![t] = NoJob]
    /\ UNCHANGED <<gmVars, engineVars, regVars, mwVars, now, pending_tasks, uiIds, runAt,
                   configured, cb, opres>>

(* _run_broadcast: the start notice to the admin, then the loop begins *)
UiNotify(p) ==
    /\ pc[p] = "ui_notify"
    /\ pc' = [pc EXCEPT ![p] = IF ids[p] = << >> THEN "ui_finish" ELSE "ui_send"]
    /\ idx' = [idx EXCEPT ![p] = 1]
    /\ attempt' = [attempt EXCEPT ![p] = 0]
    /\ result' = [result EXCEPT ![p] = [BroadcastResult EXCEPT !.total = Len(ids[p])]]
    /\ UNCHANGED <<gmVars, svcVars, regVars, only_active, cursor, ids, rec, ret, ncalls, histVars,
                   mwVars, schedVars>>

(* _run_broadcast: result = await send_message_copy(self.bot, user_id, message_data);
   on TelegramRetryAfter send_message_copy sleeps and calls itself again *)
UiSend(p, o) ==
    /\ pc[p] = "ui_send"
    /\ IF o = RetryAfter
       THEN /\ attempt[p] < MaxUiRetries
            /\ attempt' = [attempt EXCEPT ![p] = @ + 1]
            /\ UNCHANGED <<pc, idx, result>>
       ELSE /\ result' = [result EXCEPT ![p] =
                            IF o = OK THEN add_success(@) ELSE [@ EXCEPT !.failed = @ + 1]]
            /\ attempt' = [attempt EXCEPT ![p] = 0]
            /\ idx' = [idx EXCEPT ![p] = @ + 1]
            /\ pc' = [pc EXCEPT ![p] = IF idx[p] < Len(ids[p]) THEN "ui_send" ELSE "ui_finish"]
    /\ UNCHANGED <<gmVars, svcVars, regVars, only_active, cursor, ids, rec, ret, ncalls, histVars,
                   mwVars, schedVars>>

(* _run_broadcast: the completion notice to the admin *)
UiFinish(p) ==
    /\ pc[p] = "ui_finish"
    /\ pc' = [pc EXCEPT ![p] = "done"]
    /\ Dropped(p)
    /\ UNCHANGED <<gmVars, svcVars, regVars, only_active, cursor, rec,
                   ret, ncalls, outs, sleeps, touched, mwVars, schedVars>>

----------------------------------------------------------------------------
Next ==
    \/ \E p \in Direct : Call(p)
    \/ \E p \in Direct : Snapshot(p)
    \/ \E p \in Direct : SnapshotFails(p)
    \/ \E p \in Direct, o \in Outcomes : Send(p, o)
    \/ \E p \in Direct : RetireGet(p)
    \/ \E p \in Direct : RetirePut(p)
    \/ \E p \in Direct : RetireFails(p)
    \/ \E u \in Ids, kind \in UpdateKinds : MwGet(u, kind, UserName)
    \/ MwPut

Spec == Init /\ [][Next]_vars

(* the step of coroutine p that follows the await it is suspended at *)
Resume(p) ==
    \/ Snapshot(p)
    \/ SnapshotFails(p)
    \/ \E o \in Outcomes : Send(p, o)
    \/ RetireGet(p)
    \/ RetirePut(p)
    \/ RetireFails(p)

(* The dispatch engine and its callers alone *)
NextRun ==
    \/ \E p \in Direct : Call(p)
    \/ \E p \in Direct : Resume(p)

(* every sender invocation, sleep and registry call returns, and the event loop resumes
   the coroutine that awaited it *)
SpecLive == Init /\ [][NextRun]_vars /\ \A p \in Direct : WF_vars(Resume(p))

(* The whole system: scheduled tasks, the menu's immediate and scheduled runs *)
NextSys ==
    \/ \E t \in Tasks, d \in 1..MaxTime : ScheduleText(t, d)
    \/ UiOpenMenu
    \/ \E p \in Ui : UiExecuteNow(p)
    \/ \E t \in Tasks, d \in 1..MaxTime : UiSchedule(t, d)
    \/ Tick
    \/ \E t \in Tasks : TaskStart(t)
    \/ \E t \in Tasks : Snapshot(t)
    \/ \E t \in Tasks : SnapshotFails(t)
    \/ \E t \in Tasks, o \in Outcomes : Send(t, o)
    \/ \E t \in Tasks : RetireGet(t)
    \/ \E t \in Tasks : RetirePut(t)
    \/ \E t \in Tasks : RetireFails(t)
    \/ \E t \in Tasks, raises \in BOOLEAN : OnComplete(t, raises)
    \/ \E t \in Tasks, raises \in BOOLEAN : OnError(t, raises)
    \/ \E t \in Tasks : Finally(t)
    \/ \E p \in Tasks \cup Ui : UiNotify(p)
    \/ \E p \in Tasks \cup Ui, o \in UiOutcomes : UiSend(p, o)
    \/ \E p \in Tasks \cup Ui : UiFinish(p)

(* the scheduler's service is configured with a single attempt per recipient *)
InitSys == Init /\ max_retries = 1

SpecSys == InitSys /\ [][NextSys]_vars

(* The BroadcastScheduler API, with and without a timer backend, and its executions *)
NextSched ==
    \/ \E t \in Tasks, d \in 1..MaxTime : ScheduleText(t, d)
    \/ \E op \in EnsuringOps : NotConfigured(op)
    \/ \E t \in Tasks : Cancel(t)
    \/ \E t \in Tasks : UiDelete(t)
    \/ Tick
    \/ \E t \in Tasks : TaskStart(t)
    \/ \E t \in Tasks : Snapshot(t)
    \/ \E t \in Tasks : SnapshotFails(t)
    \/ \E t \in Tasks, o \in Outcomes : Send(t, o)
    \/ \E t \in Tasks : RetireGet(t)
    \/ \E t \in Tasks : RetirePut(t)
    \/ \E t \in Tasks : RetireFails(t)
    \/ \E t \in Tasks, raises \in BOOLEAN : OnComplete(t, raises)
    \/ \E t \in Tasks, raises \in BOOLEAN : OnError(t, raises)
    \/ \E t \in Tasks : Finally(t)

(* the exception update_subscriber raises for a record: none, it is add_subscriber *)
UpdateRaises(u) == AddRaises(u)

(* RedisBroadcastStorage.update_subscriber(subscriber): await self.add_subscriber(subscriber) *)
UpdateSubscriber(u, st, nm) ==
    /\ opres' = [op |-> "update_subscriber", id |-> UserKey(u), out |-> UpdateRaises(u),
                 at |-> "none"]
    /\ IF UpdateRaises(u) = "none"
       THEN /\ recs' = [recs EXCEPT ![u] = Subscriber(st, nm)]
            /\ keys' = IF u \in Range(keys) THEN keys ELSE Append(keys, u)
       ELSE UNCHANGED regVars
    /\ UNCHANGED <<gmVars, engineVars, mwVars, now, jobs, pending_tasks, uiIds, runAt, configured, cb>>

(* update_subscriber_state run to its end with no other writer in between: the
   registry it leaves, nothing written when get_subscriber returns None *)
update_subscriber_state(r, u, st) ==
    IF r[u] = NoRec THEN r ELSE [r EXCEPT ![u] = WithState(r[u], st)]

(* update_subscriber_state(user_id, SubscriberState.KICKED), called on the storage *)
MarkRetired(u) ==
    /\ opres' = [op |-> "update_subscriber_state", id |-> UserKey(u),
                 out |-> IF recs[u] = NoRec THEN "False" ELSE "True", at |-> "none"]
    /\ recs' = update_subscriber_state(recs, u, KICKED)
    /\ UNCHANGED <<gmVars, keys, engineVars, mwVars, now, jobs, pending_tasks, uiIds, runAt,
                   configured, cb>>

(* The registry written through the storage API and by the middleware *)
NextReg ==
    \/ \E u \in Ids, st \in {MEMBER, KICKED}, nm \in Names : AddSubscriber(u, st, nm)
    \/ \E u \in Ids, st \in {MEMBER, KICKED}, nm \in Names : UpdateSubscriber(u, st, nm)
    \/ \E u \in Ids : MarkRetired(u)
    \/ \E u \in Ids, kind \in UpdateKinds : MwGet(u, kind, UserName)
    \/ MwPut

SpecReg == Init /\ [][NextReg]_vars

InitSched == InitBase /\ configured \in BOOLEAN /\ max_retries = 1

SpecSched == InitSched /\ [][NextSched]_vars

----------------------------------------------------------------------------
(* The /gm throttle of the bot: ThrottlingMiddleware, gm_history, NotificationService *)

(* the count of the rows of gm_history WHERE group_id = $1 AND
   called_at > NOW() - INTERVAL '1 second' x $2; return count < max_calls *)
check_gm_rate_limit(group_id, window_seconds, max_calls) ==
    Cardinality({r \in gm_history :
                    r.group_id = group_id /\ r.called_at > gmclock - window_seconds})
        < max_calls

(* ThrottlingMiddleware.__call__ for a /gm message of a group: the query of
   check_gm_rate_limit is answered; the message is turned away with a reply, or the
   handler is entered *)
GmCheck(m, g) ==
    /\ gmpc[m] = "new"
    /\ \A k \in Msgs : (k < m) => gmpc[k] # "new"
    /\ gmgroup' = [gmgroup EXCEPT ![m] = g]
    /\ IF check_gm_rate_limit(g, GmWindow, GmLimit)
       THEN /\ gmpc' = [gmpc EXCEPT ![m] = "handler"]
            /\ gmpass' = [gmpass EXCEPT ![m] = gmclock]
       ELSE /\ gmpc' = [gmpc EXCEPT ![m] = "rejected"]
            /\ UNCHANGED gmpass
    /\ UNCHANGED <<gm_history, gmclock, libVars>>

(* cmd_gm and _send_to_all up to send_gm_to_all: with no enabled user in the group the
   handler replies and returns *)
GmHandler(m, users) ==
    /\ gmpc[m] = "handler"
    /\ gmpc' = [gmpc EXCEPT ![m] = IF users THEN "send" ELSE "done"]
    /\ UNCHANGED <<gm_history, gmgroup, gmpass, gmclock, libVars>>

(* send_gm_to_all: the loop of send_emergency and log over the enabled users *)
GmSend(m) ==
    /\ gmpc[m] = "send"
    /\ gmpc' = [gmpc EXCEPT ![m] = "record"]
    /\ UNCHANGED <<gm_history, gmgroup, gmpass, gmclock, libVars>>

(* record_gm_call: INSERT INTO gm_history (group_id, user_id); called_at is NOW() *)
GmRecord(m) ==
    /\ gmpc[m] = "record"
    /\ gm_history' = gm_history \cup
                        {[id |-> m, group_id |-> gmgroup[m], called_at |-> gmclock]}
    /\ gmpc' = [gmpc EXCEPT ![m] = "done"]
    /\ UNCHANGED <<gmgroup, gmpass, gmclock, libVars>>

(* a second passes *)
GmTick ==
    /\ gmclock < MaxGmTime
    /\ gmclock' = gmclock + 1
    /\ UNCHANGED <<gm_history, gmpc, gmgroup, gmpass, libVars>>

NextGm ==
    \/ \E m \in Msgs, g \in Groups : GmCheck(m, g)
    \/ \E m \in Msgs, users \in BOOLEAN : GmHandler(m, users)
    \/ \E m \in Msgs : GmSend(m)
    \/ \E m \in Msgs : GmRecord(m)
    \/ GmTick

SpecGm == Init /\ [][NextGm]_vars

----------------------------------------------------------------------------
(* Properties of the dispatch engine *)

Running == {"snapshot", "send", "retire_get", "retire_put"}

InFlight == {p \in Runners : pc[p] \in Running}

(* C1: single-flight. At most one invocation of _broadcast is between setting and
   clearing _in_progress; a call rejected with BroadcastInProgressError has made no
   registry call and no sender call. *)
C1_SingleFlight ==
    /\ Cardinality(InFlight) <= 1
    /\ \A p \in Runners : ret[p].kind = "BroadcastInProgressError" =>
          /\ ~touched[p]
          /\ pc[p] \notin Running

C1_Witness ==
    \E p, q \in Direct :
        /\ p # q
        /\ ret[p].kind = "BroadcastInProgressError"
        /\ pc[q] = "send"
        /\ idx[q] = 2

(* C2: guard release. The flag is true exactly while an invocation that acquired it
   has not ended; after a return, a storage error in the snapshot or an exception
   escaping the loop it is false. *)
C2_GuardRelease == in_progress <=> InFlight # {}

C2_Witness ==
    \E p \in Direct :
        /\ ret[p] = [kind |-> "StorageError", at |-> "retire"]
        /\ ~in_progress
        /\ ncalls = 2

OnlyRateLimited(o) ==
    /\ o # << >>
    /\ \A k \in 1..Len(o) - 1 : o[k] = RetryAfter
    /\ o[Len(o)] \in {RetryAfter, OK}

(* C3: rate-limit signals do not count against the retry budget. A recipient whose
   sender raised the rate-limit signal k times and nothing else but a success is, once
   the loop has moved on, counted successful after k retry-after pauses. *)
C3_RateLimitOutsideBudget ==
    \A p \in Runners :
        (last[p].id # 0 /\ OnlyRateLimited(last[p].outs)) =>
            /\ last[p].outs[Len(last[p].outs)] = OK
            /\ last[p].successful = 1
            /\ last[p].failed = 0
            /\ Count(last[p].sleeps, Sleep("retry_after", RetryAfterN)) = Len(last[p].outs) - 1

(* C4: a permanent rejection retires the recipient. When the sender's outcome for a
   recipient is a Forbidden error, whatever its text, the sender was invoked once, the
   recipient is counted failed once, is in blocked_users and is KICKED in the registry. *)
C4_ForbiddenRetires ==
    \A p \in Runners :
        (last[p].id # 0 /\ last[p].outs[1].cls = "TelegramForbiddenError") =>
            /\ Len(last[p].outs) = 1
            /\ last[p].failed = 1
            /\ last[p].blocked
            /\ last[p].state = KICKED

(* C5: a storage error raised while marking a recipient KICKED does not end the run:
   no invocation is ended by a storage error raised after the snapshot. *)
C5_RetireErrorContinues ==
    \A p \in Runners : ret[p].kind = "StorageError" => ret[p].at = "snapshot"

(* C6: per-recipient failures are data. An accepted invocation ends with a Result,
   unless a registry call raised a storage error: no sender outcome leaves _broadcast. *)
C6_SenderNeverRaises ==
    \A p \in Runners :
        /\ ret[p].kind \in {"none", "result", "BroadcastInProgressError", "StorageError"}
        /\ ret[p].kind = "StorageError" => ret[p].at \in {"snapshot", "retire"}

C6_Witness ==
    \E p \in Direct :
        /\ ret[p].kind = "result"
        /\ result[p].total = 2
        /\ result[p].errors[1] = OtherError.text
        /\ result[p].errors[2] = ForbiddenDeactivated.text

(* C7: snapshot fixation. After the snapshot, total is the number of recipients that
   matched the filter when the snapshot began, and only those recipients are sent to. *)
C7_SnapshotFixed ==
    \A p \in Runners :
        pc[p] \in {"send", "retire_get", "retire_put"} =>
            /\ result[p].total = Cardinality(startIds[p])
            /\ Range(ids[p]) \subseteq startIds[p]

AllTransient(o) == o # << >> /\ \A k \in 1..Len(o) : o[k] = ApiError

(* C8: retry exhaustion. A recipient whose sender raised only transient API errors is
   left by the loop after exactly max_retries sender invocations, counted failed once,
   with one entry in errors, not retired. *)
C8_RetryExhaustion ==
    \A p \in Runners :
        /\ AllTransient(outs[p]) => Len(outs[p]) < max_retries
        /\ (last[p].id # 0 /\ AllTransient(last[p].outs)) =>
              /\ Len(last[p].outs) = max_retries
              /\ last[p].failed = 1
              /\ last[p].successful = 0
              /\ last[p].error = ApiError.text
              /\ ~last[p].blocked
              /\ idx[p] > 1

C8_Witness ==
    \E p \in Direct :
        /\ max_retries = 3
        /\ AllTransient(last[p].outs)
        /\ Len(last[p].outs) = 3
        /\ pc[p] = "send"
        /\ result[p].failed = 1

RECURSIVE Elapsed(_)
(* the time a sequence of asyncio.sleep calls takes *)
Elapsed(sl) == IF sl = << >> THEN 0 ELSE Head(sl).secs + Elapsed(Tail(sl))

(* every sender invocation but the last of a recipient is followed by one pause: the
   pauses logged from the position of the last invocation on were slept after it returned *)
GapAfterLast(l) == Elapsed(SubSeq(l.sleeps, Len(l.outs), Len(l.sleeps)))

(* C17: rate spacing. After a successful send, at least rate_limit passes before the
   run invokes the sender again, however many attempts the recipient needed. *)
C17_RateSpacing ==
    \A p \in Runners :
        (last[p].id # 0 /\ last[p].outs[Len(last[p].outs)] = OK) =>
            GapAfterLast(last[p]) >= RateLimit

C17_Witness ==
    \E p \in Direct :
        /\ last[p].outs = <<ApiError, OK>>
        /\ GapAfterLast(last[p]) = RateLimit
        /\ pc[p] = "send"
        /\ idx[p] = 2

(* C18: an exception raised by the progress callback does not end or alter the run:
   the loop goes on with the next recipient or returns the Result, which holds the
   counts as the recipient left them, and no invocation is ended by the callback. *)
C18_ProgressErrorHarmless ==
    \A p \in Runners :
        /\ ret[p].at # "progress"
        /\ last[p].progress = "raised" =>
              /\ result[p] = base[p]
              /\ ret[p].kind \in {"none", "result"}
              /\ ret[p].kind = "none" => (pc[p] = "send" /\ ids[p][idx[p] - 1] = last[p].id)
              /\ ret[p].kind = "result" => idx[p] = Len(ids[p]) + 1

C18_Witness ==
    \E p \in Direct :
        /\ last[p].progress = "raised"
        /\ last[p].id = 1
        /\ pc[p] = "send"
        /\ idx[p] = 2
        /\ result[p].total = 2

(* C16: a retired recipient is not re-activated silently. The stored state goes from
   KICKED to MEMBER only by a write of the middleware that read the record as KICKED,
   or that handles a my_chat_member update reporting the user as member; a write based
   on a read of MEMBER never undoes the retirement. *)
C16_NoSilentReactivation ==
    [][\A u \in Ids :
          (recs[u].state = KICKED /\ recs'[u].state = MEMBER) =>
              (mwseen.state = KICKED \/ mwseen.kind = "joined")]_vars

(* C19: status filter. The run targets exactly the recipients that matched the filter
   when the snapshot was taken (MEMBER with only_active, every record without), each
   once, and total is their number. *)
C19_StatusFilter ==
    \A p \in Runners :
        pc[p] \in {"send", "retire_get", "retire_put"} =>
            /\ Range(ids[p]) = startIds[p]
            /\ Len(ids[p]) = Cardinality(startIds[p])
            /\ result[p].total = Cardinality(startIds[p])

(* C20: add_subscriber on an identity that has a record raises DuplicateIdentity and
   leaves the stored record as it was. *)
C20_AddRejectsDuplicate ==
    [][\A u \in Ids :
          (opres' # opres /\ opres'.op = "add_subscriber" /\ opres'.id = UserKey(u)
                /\ recs[u] # NoRec) =>
              (opres'.out = "DuplicateIdentity" /\ recs'[u] = recs[u])]_vars

(* C21: update_subscriber on an identity without a record raises NotFound and creates
   no record. *)
C21_UpdateRejectsAbsent ==
    [][\A u \in Ids :
          (opres' # opres /\ opres'.op = "update_subscriber" /\ opres'.id = UserKey(u)
                /\ recs[u] = NoRec) =>
              (opres'.out = "NotFound" /\ recs'[u] = NoRec)]_vars

(* C22: retirement is idempotent. For every registry and every recipient, marking the
   recipient KICKED twice leaves the registry as marking it once does. *)
C22_RetireIdempotent ==
    \A u \in Ids :
        update_subscriber_state(update_subscriber_state(recs, u, KICKED), u, KICKED)
            = update_subscriber_state(recs, u, KICKED)

C22_Witness ==
    \E u \in Ids :
        /\ opres = [op |-> "update_subscriber_state", id |-> UserKey(u), out |-> "True",
                   at |-> "none"]
        /\ recs[u] = Subscriber(KICKED, "n1")

(* C23: an unexpected failure is recorded at once. The sender is not invoked again for
   the recipient after it, no backoff is slept, the recipient is counted failed once
   with the error text, is not retired, and the loop goes on. *)
C23_UnexpectedFailsAtOnce ==
    \A p \in Runners :
        /\ \A k \in 1..Len(outs[p]) : outs[p][k] # OtherError
        /\ (last[p].id # 0 /\ last[p].outs[Len(last[p].outs)] = OtherError) =>
              /\ Count(last[p].outs, OtherError) = 1
              /\ Len(last[p].sleeps) = Len(last[p].outs) - 1
              /\ last[p].failed = 1
              /\ last[p].successful = 0
              /\ last[p].error = OtherError.text
              /\ ~last[p].blocked
              /\ pc[p] = "send" \/ ret[p].kind = "result"

C23_Witness ==
    \E p \in Direct :
        /\ max_retries = 3
        /\ last[p].outs = <<OtherError>>
        /\ last[p].id = 1
        /\ pc[p] = "send"
        /\ idx[p] = 2

TransientOrRate(o) == o # << >> /\ \A k \in 1..Len(o) : o[k] \in {ApiError, RetryAfter, OK}

(* C24: transient failures fail a recipient only when exhausted. A recipient whose sender
   raised only transient errors and rate-limit signals is counted failed only after
   max_retries transient errors; when a success follows it is counted successful and
   has no entry in errors. *)
C24_FailedOnlyWhenExhausted ==
    \A p \in Runners :
        (last[p].id # 0 /\ TransientOrRate(last[p].outs)) =>
            /\ last[p].failed = 1 => Count(last[p].outs, ApiError) = max_retries
            /\ last[p].outs[Len(last[p].outs)] = OK =>
                  (last[p].successful = 1 /\ last[p].error = NoError)

(* C25: a rejected call leaves the guard of the run in flight alone. In the step that
   rejects a call the flag is true before and after and the run in flight is the same;
   while a run is in flight every call is rejected. *)
C25_RejectionKeepsGuard ==
    /\ [](InFlight # {} => GuardRejects)
    /\ [][\A p \in Runners :
            (ret'[p].kind = "BroadcastInProgressError" /\ ret'[p] # ret[p]) =>
                /\ in_progress /\ in_progress'
                /\ InFlight # {}
                /\ \A q \in Runners : (pc[q] \in Running) <=> (pc'[q] \in Running)]_vars

C25_Witness ==
    \E p, q \in Direct :
        /\ ret[p].kind = "BroadcastInProgressError"
        /\ pc[p] = "idle"
        /\ pc[q] = "retire_put"
        /\ in_progress

(* C26: complete accounting. A returned Result has successful + failed = total. *)
C26_CompleteAccounting ==
    \A p \in Runners :
        ret[p].kind = "result" =>
            result[p].successful + result[p].failed = result[p].total

AfterSnapshot == {"send", "retire_get", "retire_put"}

(* the recipients the loop has taken up *)
Processed(p) == IF pc[p] = "send" THEN idx[p] - 1 ELSE idx[p]

(* C27: after the snapshot total is constant, successful and failed never decrease and
   grow by at most one in a step, and successful + failed <= recipients processed
   <= total. *)
C27_CountersMonotone ==
    /\ [](\A p \in Runners :
            pc[p] \in AfterSnapshot =>
                /\ result[p].successful + result[p].failed <= Processed(p)
                /\ Processed(p) <= result[p].total
                /\ result[p].total = Len(ids[p]))
    /\ [][\A p \in Runners :
            pc[p] \in AfterSnapshot =>
                /\ result'[p].total = result[p].total
                /\ result'[p].successful - result[p].successful \in {0, 1}
                /\ result'[p].failed - result[p].failed \in {0, 1}
                /\ idx'[p] - idx[p] \in {0, 1}]_vars

C27_Witness ==
    \E p \in Direct :
        /\ pc[p] = "retire_put"
        /\ idx[p] = 2
        /\ result[p].successful = 1
        /\ result[p].failed = 1
        /\ result[p].total = 2

Entries(r) == {u \in Ids : r.errors[u] # NoError}

IsPrefix(a, b) == Len(a) <= Len(b) /\ SubSeq(b, 1, Len(a)) = a

(* C28: errors is written once per identity and never overwritten, failed is the number
   of its entries; blocked_users only grows, holds no identity twice and only
   identities that have an entry in errors. *)
C28_ErrorsWriteOnce ==
    /\ [](\A p \in Direct \cup Tasks :
            /\ result[p].failed = Cardinality(Entries(result[p]))
            /\ Len(result[p].blocked_users) = Cardinality(Range(result[p].blocked_users))
            /\ Range(result[p].blocked_users) \subseteq Entries(result[p]))
    /\ [][\A p \in Direct \cup Tasks :
            pc[p] \in AfterSnapshot =>
                /\ \A u \in Entries(result[p]) : result'[p].errors[u] = result[p].errors[u]
                /\ IsPrefix(result[p].blocked_users, result'[p].blocked_users)]_vars

C28_Witness ==
    \E p \in Direct :
        /\ ret[p].kind = "result"
        /\ result[p].failed = 2
        /\ result[p].blocked_users = <<2>>
        /\ result[p].errors[1] = ApiError.text

(* C29: sequential delivery. One run sends at a time, recipients are taken in snapshot
   order with at least one sender invocation each, and a run that got its snapshot
   takes up every recipient of it. *)
C29_SequentialDelivery ==
    /\ Cardinality(InFlight) <= 1
    /\ \A p \in Direct :
          /\ last[p].id # 0 =>
                /\ idx[p] >= 2
                /\ ids[p][idx[p] - 1] = last[p].id
                /\ Len(last[p].outs) >= 1
          /\ (ret[p].kind \notin {"none", "BroadcastInProgressError"} /\ ret[p].at # "snapshot") =>
                idx[p] >= Len(ids[p])

(* C30: progress cadence. The callback is invoked once for each processed count i that
   is a multiple of the cadence and for no other, after the outcome of recipient i is in
   the Result it is handed and before the sender is invoked for recipient i + 1; a run
   that was given no callback invokes none. *)
C30_ProgressCadence ==
    \A p \in Runners :
        /\ p \notin Direct => last[p].progress = "none"
        /\ (p \in Direct /\ last[p].id # 0) =>
              /\ ids[p][idx[p] - 1] = last[p].id
              /\ outs[p] = << >>
              /\ (last[p].progress # "none") <=> ((idx[p] - 1) % ProgressEvery = 0)
              /\ last[p].progress # "none" =>
                    last[p].args = ProgressArgs(idx[p] - 1, result[p])

C30_Witness ==
    \E p \in Direct :
        /\ max_retries = 3
        /\ last[p].progress = "returned"
        /\ Len(last[p].outs) = 3
        /\ last[p].args = [i |-> 2, total |-> 2, successful |-> 1, failed |-> 1]

RECURSIVE TransientRun(_, _)
(* the number of consecutive transient failures that outcome k of o ends *)
TransientRun(o, k) ==
    IF k = 0 \/ o[k] # ApiError THEN 0 ELSE 1 + TransientRun(o, k - 1)

(* the sender outcomes and the sleeps of the recipient in hand and of the one before *)
Histories(p) ==
    {[o |-> outs[p], s |-> sleeps[p]], [o |-> last[p].outs, s |-> last[p].sleeps]}

(* C31: linear backoff. After the k-th consecutive transient failure of a recipient the
   engine sleeps k x retry_delay before the next attempt, and after the failure that
   exhausts the attempts it records the failure with no backoff sleep. *)
C31_LinearBackoff ==
    \A p \in Direct :
        /\ \A h \in Histories(p) :
              /\ \A k \in 1..Len(h.s) :
                    h.s[k].kind = "backoff" =>
                        h.s[k].secs = TransientRun(h.o, k) * RetryDelay
              /\ \A k \in 1..(Len(h.o) - 1) :
                    h.o[k] = ApiError => h.s[k].kind = "backoff"
        /\ (last[p].failed = 1 /\ last[p].outs[Len(last[p].outs)] = ApiError) =>
              Len(last[p].sleeps) = Len(last[p].outs) - 1

(* C32: termination. Every accepted broadcast call ends whatever the sender does, the
   sender is invoked at most max_retries times for a recipient and at most
   total x max_retries times in a run, and the guard is released in the end. *)
C32_Termination ==
    /\ [](\A p \in Direct :
            /\ Len(outs[p]) <= max_retries
            /\ Len(last[p].outs) <= max_retries
            /\ pc[p] \in Running \ {"snapshot"} =>
                  (idx[p] - 1) * max_retries + Len(outs[p]) <= result[p].total * max_retries)
    /\ \A p \in Direct : (pc[p] \in Running) ~> (pc[p] = "idle" /\ ret[p].kind # "none")
    /\ in_progress ~> ~in_progress

C32_Witness ==
    \E p \in Direct :
        /\ max_retries = 3
        /\ ret[p].kind = "result"
        /\ ~in_progress
        /\ Len(last[p].outs) = 3
        /\ \A k \in 1..3 : last[p].outs[k] = RetryAfter

(* C36: retiring a recipient changes only its status. The name of the record and every
   other record are after update_subscriber_state what was stored just before its
   write, also when the middleware refreshed the name in between; for an identity with
   no record it returns False and stores nothing. *)
C36_RetireOnlyStatus ==
    [][\A p \in Direct :
          LET u == ids[p][idx[p]]
          IN  /\ (pc[p] = "retire_put" /\ rec'[p] # rec[p]) =>
                    /\ recs'[u] = WithState(recs[u], KICKED)
                    /\ \A v \in Ids \ {u} : recs'[v] = recs[v]
              /\ (pc[p] = "retire_get" /\ recs[u] = NoRec /\ pc'[p] # "retire_get"
                    /\ ret'[p] = ret[p]) =>
                    /\ recs' = recs
                    /\ last'[p].state = "none"]_vars

----------------------------------------------------------------------------
(* Properties of the whole system *)

DeliveryLoops == {p \in Runners : pc[p] \in {"send", "retire_get", "retire_put", "ui_send"}}

(* C9: every delivery run passes through the in-progress guard of BroadcastService:
   in no state are two delivery loops sending. *)
C9_OneDeliveryLoop == Cardinality(DeliveryLoops) <= 1

SameInstant(t, u) ==
    /\ t # u
    /\ runAt[t] # 0
    /\ runAt[t] = runAt[u]
    /\ t \in pending_tasks \/ ret[t].kind # "none"
    /\ u \in pending_tasks \/ ret[u].kind # "none"

(* C10: of the tasks scheduled through BroadcastScheduler for the same instant, every
   one runs its delivery loop, one at a time: none is turned away by the guard. *)
C10_SameInstantAllRun ==
    /\ Cardinality(InFlight) <= 1
    /\ \A t, u \in Tasks :
          SameInstant(t, u) => ret[t].kind # "BroadcastInProgressError"

----------------------------------------------------------------------------
(* Properties of BroadcastScheduler *)

Executing == {"fired", "snapshot", "send", "retire_get", "retire_put",
              "on_complete", "on_error", "finally"}

(* C11: for a fired task exactly one of the two callbacks is invoked, on_complete if
   the dispatch call returned and on_error if it raised; an exception raised by the
   callback is swallowed: the other callback is not invoked and nothing reaches the
   timer backend. *)
C11_ExactlyOneCallback ==
    \A t \in Tasks :
        /\ pc[t] = "finally" =>
              /\ cb[t].called = IF ret[t].kind = "result" THEN <<"on_complete">>
                                ELSE <<"on_error">>
              /\ ~cb[t].escaped
        /\ pc[t] \in {"on_complete", "on_error"} => cb[t].called = << >>

C11_Witness ==
    \E t, u \in Tasks :
        /\ pc[t] = "finally" /\ cb[t].raised /\ ret[t].kind = "result"
        /\ pc[u] = "finally" /\ cb[u].raised /\ ret[u].kind = "BroadcastInProgressError"

(* C12: once the execution of a fired task has ended, however the dispatch call and
   the callback ended, the task is not in the pending table: get_task returns None and
   get_pending_tasks does not hold it. *)
C12_EndedTaskNotPending ==
    \A t \in Tasks :
        pc[t] = "done" => (get_task(t) = "None" /\ t \notin get_pending_tasks)

C12_Witness ==
    \E t, u \in Tasks :
        /\ pc[t] = "done" /\ ret[t].kind = "StorageError"
        /\ pc[u] = "done" /\ ret[u].kind = "result"
        /\ pending_tasks = {}

(* C13: cancel(t) returns true exactly when t is in the pending table and has not
   fired, and then removes the timer and the pending entry; when it returns false the
   pending table and the timers are unchanged. *)
C13_Cancel ==
    [][\A t \in Tasks :
          (opres' # opres /\ opres'.op = "cancel" /\ opres'.id = t) =>
              /\ (opres'.out = "True") <=> (t \in pending_tasks /\ pc[t] = "idle")
              /\ opres'.out = "True" => (jobs'[t] = NoJob /\ t \notin pending_tasks')
              /\ opres'.out = "False" => UNCHANGED <<jobs, pending_tasks>>]_vars

(* C14: without a timer backend every operation of BroadcastScheduler raises
   SchedulerNotConfiguredError, and the pending table stays as it was. *)
C14_NotConfiguredAllFail ==
    ~configured =>
        /\ \A op \in SchedulerOps : Raises(op) = "SchedulerNotConfiguredError"
        /\ pending_tasks = {}

(* C15: the pending table holds exactly the tasks registered through schedule_text whose
   timer job is still registered or whose execution has begun and not ended. *)
C15_PendingLifecycle ==
    \A t \in Tasks :
        t \in pending_tasks <=>
            \/ jobs[t] # NoJob /\ jobs[t].func = "_execute_text_broadcast"
            \/ pc[t] \in Executing /\ runAt[t] # 0

Rejected(t) == ret[t].kind = "BroadcastInProgressError"

(* C33: a scheduled task that fires while another broadcast is in flight is not queued
   or retried. The dispatch call raises BroadcastInProgressError, on_error is invoked
   with the task id and that error, the sender is not invoked for the task, the task
   leaves the pending table, and the broadcast in flight goes on as before. *)
C33_FiredWhileBusy ==
    /\ [](\A t \in Tasks :
            Rejected(t) =>
                /\ ~touched[t]
                /\ pc[t] \in {"on_error", "finally", "done"}
                /\ pc[t] = "finally" =>
                      /\ cb[t].called = <<"on_error">>
                      /\ cb[t].task = t
                      /\ cb[t].arg = "BroadcastInProgressError"
                /\ pc[t] = "done" => t \notin pending_tasks)
    /\ [][\A t \in Tasks :
            (Rejected(t)' /\ ~Rejected(t)) =>
                /\ in_progress /\ in_progress'
                /\ \A q \in Tasks \ {t} :
                      /\ pc'[q] = pc[q]
                      /\ ids'[q] = ids[q] /\ idx'[q] = idx[q]
                      /\ result'[q] = result[q] /\ ret'[q] = ret[q]
                      /\ attempt'[q] = attempt[q] /\ outs'[q] = outs[q]]_vars

C33_Witness ==
    \E t, u \in Tasks :
        /\ Rejected(t) /\ pc[t] = "done"
        /\ pc[u] = "send" /\ idx[u] = 2
        /\ result[u].successful = 1

(* the state cancel leaves a task in when it returns True *)
Canceled(t) ==
    /\ runAt[t] # 0
    /\ jobs[t] = NoJob
    /\ t \notin pending_tasks
    /\ pc[t] = "idle"
    /\ ret[t] = NoRet
    /\ cb[t] = NoCb
    /\ ~touched[t]

(* C34: a canceled task never delivers. Once cancel(t) has returned True the dispatch
   engine is never invoked for t, no callback is invoked for it, and it never comes
   back to the pending table. *)
C34_CanceledNeverDelivers ==
    [][\A t \in Tasks :
          /\ (opres' # opres /\ opres'.op = "cancel" /\ opres'.id = t
                /\ opres'.out = "True") => Canceled(t)'
          /\ Canceled(t) => Canceled(t)']_vars

C34_Witness ==
    \E t, u \in Tasks :
        /\ opres = [op |-> "cancel", id |-> t, out |-> "True", at |-> "idle"]
        /\ Canceled(t)
        /\ runAt[t] = 1
        /\ now = MaxTime
        /\ pc[u] = "done" /\ ret[u].kind = "result"

(* C35: cancel(t) called while the broadcast of t is executing returns False and does
   not interrupt the run: the execution stays where it was, the task stays in the
   pending table until the run has ended, and a callback is still invoked. *)
C35_CancelWhileExecuting ==
    /\ [][\A t \in Tasks :
            (pc[t] \in Executing /\ opres' # opres /\ opres'.op = "cancel"
               /\ opres'.id = t) =>
                /\ opres'.out = "False"
                /\ UNCHANGED <<pc, pending_tasks, ids, idx, result, in_progress, ret>>]_vars
    /\ [](\A t \in Tasks :
            /\ pc[t] \in Executing => t \in pending_tasks
            /\ pc[t] = "finally" => Len(cb[t].called) = 1)

C35_Witness ==
    \E t \in Tasks :
        /\ opres = [op |-> "cancel", id |-> t, out |-> "False", at |-> "executing"]
        /\ pc[t] = "finally"
        /\ cb[t].called = <<"on_complete">>
        /\ t \in pending_tasks

----------------------------------------------------------------------------
(* Properties of the /gm throttle *)

(* the /gm messages of group g that passed the middleware in the window ending at t *)
PassedIn(g, t) ==
    {m \in Msgs : gmgroup[m] = g /\ gmpass[m] >= 0
                    /\ gmpass[m] > t - GmWindow /\ gmpass[m] <= t}

(* C37: /gm rate limit. For every group and every window of gm_rate_window seconds at
   most gm_rate_limit /gm messages pass ThrottlingMiddleware and are executed, however
   the tasks that handle the messages interleave. *)
C37_GmRateLimit ==
    \A g \in Groups, t \in 0..MaxGmTime : Cardinality(PassedIn(g, t)) <= GmLimit

====
